---- MODULE Spec2Model ----
(***************************************************************************)
(* Model of the hotkey-settings commands (commands/settings.rs) and of the *)
(* overlay resize command (commands/overlay.rs) of tambourine-voice.       *)
(*                                                                         *)
(* Strings with letter case are TLA+ strings over a small vocabulary;      *)
(* to_lowercase folds them.  Window coordinates are logical units; a       *)
(* position is stored doubled (x2 = 2*x) so that x + w/2 is exact, as it   *)
(* is in f64 for these magnitudes.                                         *)
(***************************************************************************)
EXTENDS Integers, Sequences, FiniteSets, TLC

\* hist is history, read by no command.  reset_failed: a write of
\* reset_hotkeys_to_defaults has failed and no reset has completed since;
\* raw_used: a command without conflict validation has been run.
VARIABLES settings, task, ncalls, hist, val, window, OVERLAY_CENTER, otask, ocalls, run

\* The lock protocol of the commands, without their data: settings_lock and
\* center_lock are the task that holds the lock of SettingsManager and the
\* lock of OVERLAY_CENTER (0: free), ltask where each task stands in its
\* command, lcalls the number of commands started.
VARIABLES settings_lock, center_lock, ltask, lcalls

svars == <<settings, task, ncalls, hist>>
vvars == <<val>>
ovars == <<window, OVERLAY_CENTER, otask, ocalls, run>>
lvars == <<settings_lock, center_lock, ltask, lcalls>>
vars == <<settings, task, ncalls, hist, val, window, OVERLAY_CENTER, otask, ocalls, run,
          settings_lock, center_lock, ltask, lcalls>>

(* ------------------------------ bounds -------------------------------- *)

\* concurrently running command handlers
NumTasks == 2
\* commands started in one behaviour of a settings specification
MaxCalls == 3
\* resize_overlay calls and user drags in one behaviour of the overlay specification
MaxResizes == 3
\* modifiers of a hotkey that is_same_as is applied to on its own
MaxMods == 2
\* '+'-separated segments of a string normalize_shortcut_string is applied to
MaxSegs == 3

Tasks == 1..NumTasks

(* --------------------------- HotkeyConfig ----------------------------- *)

None == "None"

to_lowercase(s) ==
    CASE s \in {"Ctrl", "CTRL", "ctrl"} -> "ctrl"
      [] s \in {"Alt", "ALT", "alt"} -> "alt"
      [] s \in {"Shift", "SHIFT", "shift"} -> "shift"
      [] s \in {"Space", "space", "SPACE"} -> "space"
      [] s \in {"Backquote", "backquote"} -> "backquote"
      [] s \in {"Period", "period"} -> "period"
      [] s \in {"F1", "f1"} -> "f1"
      [] s \in {"Bogus", "bogus"} -> "bogus"
      [] OTHER -> s

HotkeyConfig(key, modifiers) == [key |-> key, modifiers |-> modifiers]

NoHotkey == HotkeyConfig("", <<>>)

ModifierSet(h) == {to_lowercase(h.modifiers[i]) : i \in 1..Len(h.modifiers)}

\* faulty variant: the modifiers of a only have to occur among those of b
is_same_as_one_way(a, b) ==
    /\ to_lowercase(a.key) = to_lowercase(b.key)
    /\ \A m \in ModifierSet(a) : m \in ModifierSet(b)

\* HotkeyConfig::is_same_as: case-folded keys equal, case-folded modifier
\* sets of equal size and identical membership.
is_same_as(a, b) ==
    /\ to_lowercase(a.key) = to_lowercase(b.key)
    /\ Cardinality(ModifierSet(a)) = Cardinality(ModifierSet(b))
    /\ \A m \in ModifierSet(a) : m \in ModifierSet(b)

\* the vocabulary of the global-hotkey subsystem that to_shortcut parses into
KnownKeys == {"space", "backquote", "period", "f1"}
KnownModifiers == {"ctrl", "alt", "shift"}

\* HotkeyConfig::to_shortcut: TRUE iff the parse succeeds
to_shortcut(h) ==
    /\ to_lowercase(h.key) \in KnownKeys
    /\ \A m \in ModifierSet(h) : m \in KnownModifiers

default_toggle == HotkeyConfig("Space", <<"Ctrl", "Alt">>)
default_hold == HotkeyConfig("Backquote", <<"Ctrl", "Alt">>)
default_paste_last == HotkeyConfig("Period", <<"Ctrl", "Alt">>)

\* Ctrl+Alt+Space in another letter case and modifier order
toggle_variant == HotkeyConfig("space", <<"ALT", "CTRL">>)
ctrl_f1 == HotkeyConfig("F1", <<"Ctrl">>)
ctrl_space == HotkeyConfig("Space", <<"Ctrl">>)
ctrl_bogus == HotkeyConfig("Bogus", <<"Ctrl">>)
\* unparseable and the same as ctrl_bogus
bogus_variant == HotkeyConfig("bogus", <<"CTRL">>)

Hotkeys ==
    {default_toggle, default_hold, default_paste_last, toggle_variant,
     ctrl_f1, ctrl_space, ctrl_bogus}

(* ----------------------------- AppSettings ---------------------------- *)

Slots == <<"toggle", "hold", "paste_last">>
SlotNames == {"toggle", "hold", "paste_last"}

HotkeyFields == {"toggle_hotkey", "hold_hotkey", "paste_last_hotkey"}

ScalarFields ==
    {"selected_mic", "sound_enabled", "cleanup_prompt_sections", "stt_provider",
     "llm_provider", "auto_mute_audio", "stt_timeout"}

AppSettingsDefault ==
    [toggle_hotkey |-> default_toggle,
     hold_hotkey |-> default_hold,
     paste_last_hotkey |-> default_paste_last,
     selected_mic |-> None,
     sound_enabled |-> TRUE,
     cleanup_prompt_sections |-> None,
     stt_provider |-> None,
     llm_provider |-> None,
     auto_mute_audio |-> FALSE,
     stt_timeout |-> None]

\* the value a scalar mutator is called with in the model
ScalarValues(field) ==
    CASE field = "selected_mic" -> {None, "mic1"}
      [] field = "sound_enabled" -> BOOLEAN
      [] field = "cleanup_prompt_sections" -> {None, "sections1"}
      [] field = "stt_provider" -> {None, "stt1"}
      [] field = "llm_provider" -> {None, "llm1"}
      [] field = "auto_mute_audio" -> BOOLEAN
      [] field = "stt_timeout" -> {None, "30"}

PairwiseDistinct(s) ==
    /\ ~is_same_as(s.toggle_hotkey, s.hold_hotkey)
    /\ ~is_same_as(s.toggle_hotkey, s.paste_last_hotkey)
    /\ ~is_same_as(s.hold_hotkey, s.paste_last_hotkey)

(* -------------------- validate_no_duplicate_shortcut ------------------ *)

Ok == [ok |-> TRUE, kind |-> "", slot |-> ""]
Err(kind, slot) == [ok |-> FALSE, kind |-> kind, slot |-> slot]

\* hotkey_type.replace('_', " ")
replace_underscore(hotkey_type) ==
    CASE hotkey_type = "paste_last" -> "paste last"
      [] OTHER -> hotkey_type

hotkeys_to_check(current_settings) ==
    << <<"toggle", current_settings.toggle_hotkey>>,
       <<"hold", current_settings.hold_hotkey>>,
       <<"paste_last", current_settings.paste_last_hotkey>> >>

RECURSIVE validate_loop(_, _, _, _)
validate_loop(list, i, new_hotkey, exclude_type) ==
    IF i > Len(list)
    THEN Ok
    ELSE IF list[i][1] # exclude_type /\ is_same_as(new_hotkey, list[i][2])
         THEN Err("conflict", replace_underscore(list[i][1]))
         ELSE validate_loop(list, i + 1, new_hotkey, exclude_type)

\* faulty variant: the loop stops before the paste_last slot
validate_skips_paste_last(new_hotkey, current_settings, exclude_type) ==
    validate_loop(SubSeq(hotkeys_to_check(current_settings), 1, 2), 1,
                  new_hotkey, exclude_type)

\* faulty variant: the excluded slot is compared like the others
validate_ignores_exclude(new_hotkey, current_settings, exclude_type) ==
    validate_loop(hotkeys_to_check(current_settings), 1, new_hotkey, "")

validate_no_duplicate_shortcut(new_hotkey, current_settings, exclude_type) ==
    validate_loop(hotkeys_to_check(current_settings), 1, new_hotkey, exclude_type)

(* ----------------------- normalize_shortcut_string -------------------- *)

\* A shortcut string is the sequence of its characters.
lower_char(c) ==
    CASE c = "A" -> "a" [] c = "C" -> "c" [] c = "E" -> "e" [] c = "I" -> "i"
      [] c = "L" -> "l" [] c = "M" -> "m" [] c = "N" -> "n" [] c = "P" -> "p"
      [] c = "R" -> "r" [] c = "S" -> "s" [] c = "T" -> "t" [] c = "W" -> "w"
      [] OTHER -> c

str_to_lowercase(s) == [i \in 1..Len(s) |-> lower_char(s[i])]

\* s.split('+'): the segments between the '+' characters, cur being the
\* segment read so far
RECURSIVE split_from(_, _)
split_from(s, cur) ==
    IF s = <<>>
    THEN <<cur>>
    ELSE IF Head(s) = "+"
         THEN <<cur>> \o split_from(Tail(s), <<>>)
         ELSE split_from(Tail(s), Append(cur, Head(s)))

split_plus(s) == split_from(s, <<>>)

\* segments.join("+")
RECURSIVE join_plus(_)
join_plus(segs) ==
    IF Len(segs) = 0 THEN <<>>
    ELSE IF Len(segs) = 1 THEN segs[1]
    ELSE segs[1] \o <<"+">> \o join_plus(Tail(segs))

\* the modifier-name rewrite table, applied to a lower-case segment
rewrite_modifier(seg) ==
    CASE seg = <<"c", "t", "r", "l">> -> <<"c", "o", "n", "t", "r", "o", "l">>
      [] seg = <<"c", "m", "d">> -> <<"s", "u", "p", "e", "r">>
      [] seg = <<"w", "i", "n">> -> <<"s", "u", "p", "e", "r">>
      [] seg = <<"m", "e", "t", "a">> -> <<"s", "u", "p", "e", "r">>
      [] OTHER -> seg

\* faulty variant: the last segment is taken for the key and not rewritten
normalize_keeps_last_segment(shortcut) ==
    LET segs == split_plus(shortcut)
    IN  join_plus([i \in 1..Len(segs) |->
                     IF i = Len(segs) THEN str_to_lowercase(segs[i])
                     ELSE rewrite_modifier(str_to_lowercase(segs[i]))])

normalize_shortcut_string(shortcut) ==
    LET segs == split_plus(shortcut)
    IN  join_plus([i \in 1..Len(segs) |-> rewrite_modifier(str_to_lowercase(segs[i]))])

(* ---------------------------- SettingsManager ------------------------- *)

\* How one SettingsManager call ends: it succeeds, it fails before touching
\* the settings (the lock cannot be taken), or it fails in the persisting
\* write after the in-memory update.
Outcomes == {"ok", "lock_failed", "save_failed"}

\* a single-field mutator of SettingsManager, atomic under the settings lock
sm_update_field(s, field, v, outcome) ==
    IF outcome = "lock_failed" THEN s ELSE [s EXCEPT ![field] = v]

\* SettingsManager::update, wholesale replacement
sm_update(s, new_settings, outcome) ==
    IF outcome = "lock_failed" THEN s ELSE new_settings

StoreResult(outcome) == IF outcome = "ok" THEN Ok ELSE Err("store", "")

(* ------------------------------ task state ---------------------------- *)

OkTrue == [ok |-> TRUE, kind |-> "true", slot |-> ""]
NoResult == Err("none", "")

\* pc: "idle", "done", "write" (a live update between its checks and its
\* update_fn), "hold" / "paste_last" (a reset before that write).
\* slot is the hotkey_type of a live update, field the settings field the
\* command writes, hotkey and new_settings the argument, wrote whether a
\* raw slot mutator was invoked, logged whether the restart-required record
\* was written to the log, id the number of the call.
IdleTask ==
    [pc |-> "idle", cmd |-> "", slot |-> "", field |-> "", hotkey |-> NoHotkey,
     new_settings |-> AppSettingsDefault, result |-> NoResult, wrote |-> FALSE,
     logged |-> FALSE, id |-> 0]

Returned(t) == task[t].pc \in {"idle", "done"}

CanStart(t) == Returned(t) /\ ncalls < MaxCalls

Call(pc, cmd, slot, field, hotkey, result, wrote) ==
    [pc |-> pc, cmd |-> cmd, slot |-> slot, field |-> field, hotkey |-> hotkey,
     new_settings |-> AppSettingsDefault, result |-> result, wrote |-> wrote,
     logged |-> FALSE, id |-> ncalls + 1]

Finish(t, result) ==
    [task EXCEPT ![t].pc = "done", ![t].result = result, ![t].wrote = TRUE]

(* ------------------------------- commands ----------------------------- *)

get_settings(t, outcome) ==
    /\ CanStart(t)
    /\ outcome # "save_failed"
    /\ task' = [task EXCEPT ![t] =
                  Call("done", "get_settings", "", "", NoHotkey, StoreResult(outcome), FALSE)]
    /\ settings' = settings
    /\ ncalls' = ncalls + 1
    /\ UNCHANGED <<hist, vvars, ovars, lvars>>

save_settings(t, new_settings, outcome) ==
    /\ CanStart(t)
    /\ task' = [task EXCEPT ![t] =
                  [Call("done", "save_settings", "", "", NoHotkey, StoreResult(outcome), FALSE)
                     EXCEPT !.new_settings = new_settings]]
    /\ settings' = sm_update(settings, new_settings, outcome)
    /\ hist' = [hist EXCEPT !.raw_used = TRUE]
    /\ ncalls' = ncalls + 1
    /\ UNCHANGED <<vvars, ovars, lvars>>

\* a command that is one call of a single-field mutator of SettingsManager
FieldCommand(t, cmd, field, v, hotkey, outcome) ==
    /\ CanStart(t)
    /\ task' = [task EXCEPT ![t] =
                  Call("done", cmd, "", field, hotkey, StoreResult(outcome),
                       field \in HotkeyFields)]
    /\ settings' = sm_update_field(settings, field, v, outcome)
    /\ hist' = [hist EXCEPT !.raw_used = (@ \/ field \in HotkeyFields)]
    /\ ncalls' = ncalls + 1
    /\ UNCHANGED <<vvars, ovars, lvars>>

\* faulty variant: the command calls the mutator of the hold slot
update_toggle_hotkey_wrong_slot(t, hotkey, outcome) ==
    FieldCommand(t, "update_toggle_hotkey", "hold_hotkey", hotkey, hotkey, outcome)

update_toggle_hotkey(t, hotkey, outcome) ==
    FieldCommand(t, "update_toggle_hotkey", "toggle_hotkey", hotkey, hotkey, outcome)

update_hold_hotkey(t, hotkey, outcome) ==
    FieldCommand(t, "update_hold_hotkey", "hold_hotkey", hotkey, hotkey, outcome)

update_paste_last_hotkey(t, hotkey, outcome) ==
    FieldCommand(t, "update_paste_last_hotkey", "paste_last_hotkey", hotkey, hotkey, outcome)

update_selected_mic(t, mic_id, outcome) ==
    FieldCommand(t, "update_selected_mic", "selected_mic", mic_id, NoHotkey, outcome)

\* faulty variant: the command calls the mutator of the auto-mute flag
update_sound_enabled_wrong_field(t, enabled, outcome) ==
    FieldCommand(t, "update_sound_enabled", "auto_mute_audio", enabled, NoHotkey, outcome)

update_sound_enabled(t, enabled, outcome) ==
    FieldCommand(t, "update_sound_enabled", "sound_enabled", enabled, NoHotkey, outcome)

update_cleanup_prompt_sections(t, sections, outcome) ==
    FieldCommand(t, "update_cleanup_prompt_sections", "cleanup_prompt_sections",
                 sections, NoHotkey, outcome)

update_stt_provider(t, provider, outcome) ==
    FieldCommand(t, "update_stt_provider", "stt_provider", provider, NoHotkey, outcome)

update_llm_provider(t, provider, outcome) ==
    FieldCommand(t, "update_llm_provider", "llm_provider", provider, NoHotkey, outcome)

update_auto_mute_audio(t, enabled, outcome) ==
    FieldCommand(t, "update_auto_mute_audio", "auto_mute_audio", enabled, NoHotkey, outcome)

update_stt_timeout(t, timeout_seconds, outcome) ==
    FieldCommand(t, "update_stt_timeout", "stt_timeout", timeout_seconds, NoHotkey, outcome)

\* update_hotkey_with_validation up to the call of update_fn: the result of
\* settings_manager.get(), the conflict check and the parse check
uhv_checks(hotkey, hotkey_type, current_settings, outcome) ==
    IF outcome # "ok"
    THEN Err("store", "")
    ELSE LET v == validate_no_duplicate_shortcut(hotkey, current_settings, hotkey_type)
         IN  IF ~v.ok THEN v
             ELSE IF ~to_shortcut(hotkey) THEN Err("parse", "")
             ELSE Ok

\* faulty variant: update_fn is called before the checks
uhv_writes_before_checks(t, cmd, hotkey, hotkey_type, field, outcome) ==
    /\ CanStart(t)
    /\ outcome # "save_failed"
    /\ LET r == uhv_checks(hotkey, hotkey_type, settings, outcome)
       IN  task' = [task EXCEPT ![t] =
                      Call("done", cmd, hotkey_type, field, hotkey, r, TRUE)]
    /\ settings' = sm_update_field(settings, field, hotkey, outcome)
    /\ ncalls' = ncalls + 1
    /\ UNCHANGED <<hist, vvars, ovars, lvars>>

\* first step of update_hotkey_with_validation: get() under the settings
\* lock, then the two checks on the copy it returned
update_hotkey_with_validation(t, cmd, hotkey, hotkey_type, field, outcome) ==
    /\ CanStart(t)
    /\ outcome # "save_failed"
    /\ LET r == uhv_checks(hotkey, hotkey_type, settings, outcome)
       IN  task' = [task EXCEPT ![t] =
                      IF r.ok
                      THEN Call("write", cmd, hotkey_type, field, hotkey, NoResult, FALSE)
                      ELSE Call("done", cmd, hotkey_type, field, hotkey, r, FALSE)]
    /\ settings' = settings
    /\ ncalls' = ncalls + 1
    /\ UNCHANGED <<hist, vvars, ovars, lvars>>

\* faulty variant: the result of update_fn is not looked at
uhv_update_fn_ignores_result(t, outcome) ==
    /\ task[t].pc = "write"
    /\ settings' = sm_update_field(settings, task[t].field, task[t].hotkey, outcome)
    /\ task' = [Finish(t, Ok) EXCEPT ![t].logged = TRUE]
    /\ UNCHANGED <<ncalls, hist, vvars, ovars, lvars>>

\* second step of update_hotkey_with_validation: update_fn, a raw slot
\* mutator under the settings lock, then the log record and the return
uhv_update_fn(t, outcome) ==
    /\ task[t].pc = "write"
    /\ settings' = sm_update_field(settings, task[t].field, task[t].hotkey, outcome)
    /\ task' = [Finish(t, StoreResult(outcome)) EXCEPT ![t].logged = (outcome = "ok")]
    /\ UNCHANGED <<ncalls, hist, vvars, ovars, lvars>>

update_toggle_hotkey_live(t, hotkey, outcome) ==
    update_hotkey_with_validation(t, "update_toggle_hotkey_live", hotkey, "toggle",
                                  "toggle_hotkey", outcome)

update_hold_hotkey_live(t, hotkey, outcome) ==
    update_hotkey_with_validation(t, "update_hold_hotkey_live", hotkey, "hold",
                                  "hold_hotkey", outcome)

update_paste_last_hotkey_live(t, hotkey, outcome) ==
    update_hotkey_with_validation(t, "update_paste_last_hotkey_live", hotkey, "paste_last",
                                  "paste_last_hotkey", outcome)

\* reset_hotkeys_to_defaults up to and including its first write
reset_hotkeys_to_defaults(t, outcome) ==
    /\ CanStart(t)
    /\ settings' = sm_update_field(settings, "toggle_hotkey", default_toggle, outcome)
    /\ task' = [task EXCEPT ![t] =
                  IF outcome = "ok"
                  THEN Call("hold", "reset_hotkeys_to_defaults", "", "", NoHotkey,
                            NoResult, TRUE)
                  ELSE Call("done", "reset_hotkeys_to_defaults", "", "", NoHotkey,
                            StoreResult(outcome), TRUE)]
    /\ hist' = [hist EXCEPT !.reset_failed = (@ \/ outcome # "ok")]
    /\ ncalls' = ncalls + 1
    /\ UNCHANGED <<vvars, ovars, lvars>>

\* faulty variant: the reset goes on after a failed second write
reset_update_hold_ignores_failure(t, outcome) ==
    /\ task[t].pc = "hold"
    /\ settings' = sm_update_field(settings, "hold_hotkey", default_hold, outcome)
    /\ task' = [task EXCEPT ![t].pc = "paste_last"]
    /\ hist' = [hist EXCEPT !.reset_failed = (@ \/ outcome # "ok")]
    /\ UNCHANGED <<ncalls, vvars, ovars, lvars>>

\* its second write
reset_update_hold(t, outcome) ==
    /\ task[t].pc = "hold"
    /\ settings' = sm_update_field(settings, "hold_hotkey", default_hold, outcome)
    /\ task' = IF outcome = "ok"
               THEN [task EXCEPT ![t].pc = "paste_last"]
               ELSE Finish(t, StoreResult(outcome))
    /\ hist' = [hist EXCEPT !.reset_failed = (@ \/ outcome # "ok")]
    /\ UNCHANGED <<ncalls, vvars, ovars, lvars>>

\* faulty variant: the third write stores the default of the hold slot
reset_paste_last_gets_hold_default(t, outcome) ==
    /\ task[t].pc = "paste_last"
    /\ settings' = sm_update_field(settings, "paste_last_hotkey", default_hold, outcome)
    /\ task' = Finish(t, IF outcome = "ok" THEN OkTrue ELSE StoreResult(outcome))
    /\ hist' = [hist EXCEPT !.reset_failed = (outcome # "ok")]
    /\ UNCHANGED <<ncalls, vvars, ovars, lvars>>

\* its third write and the return of Ok(true)
reset_update_paste_last(t, outcome) ==
    /\ task[t].pc = "paste_last"
    /\ settings' = sm_update_field(settings, "paste_last_hotkey", default_paste_last, outcome)
    /\ task' = Finish(t, IF outcome = "ok" THEN OkTrue ELSE StoreResult(outcome))
    /\ hist' = [hist EXCEPT !.reset_failed = (outcome # "ok")]
    /\ UNCHANGED <<ncalls, vvars, ovars, lvars>>

(* -------------------- the conflict check on its own ------------------- *)

ValIdle ==
    [new_hotkey |-> NoHotkey, current_settings |-> AppSettingsDefault,
     exclude_type |-> "", result |-> NoResult, called |-> FALSE]

\* the settings the conflict check is applied to: any hotkeys in the slots
SettingsOver(hs) ==
    {[AppSettingsDefault EXCEPT !.toggle_hotkey = a, !.hold_hotkey = b,
                                !.paste_last_hotkey = c] : a \in hs, b \in hs, c \in hs}

ExcludeTypes == SlotNames \cup {"other"}

validate_call ==
    /\ ~val.called
    /\ val' = [val EXCEPT
                 !.result = validate_no_duplicate_shortcut(val.new_hotkey,
                                val.current_settings, val.exclude_type),
                 !.called = TRUE]
    /\ UNCHANGED <<svars, ovars, lvars>>

(* ------------------------------ overlay ------------------------------- *)

min_size == 48

NoCenter == [some |-> FALSE, cx2 |-> 0, cy2 |-> 0]
Some(cx2, cy2) == [some |-> TRUE, cx2 |-> cx2, cy2 |-> cy2]

\* the overlay window of the windowing layer: logical position (doubled),
\* logical size and the scale factor of its monitor
NoWindow == [exists |-> FALSE, x2 |-> 0, y2 |-> 0, w |-> 0, h |-> 0, scale |-> 1]

\* where the window's center is, in doubled logical units: (x + w/2, y + h/2)
WindowCenter(win) ==
    IF win.exists THEN Some(win.x2 + win.w, win.y2 + win.h) ELSE NoCenter

\* faulty variant: no clamping
fmax_unclamped(a, b) == a

\* f64::max
fmax(a, b) == IF a >= b THEN a ELSE b

\* window.outer_position() and window.outer_size(): physical pixels
outer_position(win) == [x2 |-> win.x2 * win.scale, y2 |-> win.y2 * win.scale]
outer_size(win) == [width |-> win.w * win.scale, height |-> win.h * win.scale]

\* window.scale_factor().unwrap_or(1.0)
scale_factor(win, scale_ok) == IF scale_ok THEN win.scale ELSE 1

\* the initial center from the current position and size, in logical units
initial_center(win, scale_ok) ==
    LET pos == outer_position(win)
        size == outer_size(win)
        scale == scale_factor(win, scale_ok)
        x2 == pos.x2 \div scale
        y2 == pos.y2 \div scale
        w == size.width \div scale
        h == size.height \div scale
    IN  Some(x2 + w, y2 + h)

\* faulty variant: the center is computed afresh whenever it can be
get_or_init_center_always(center_guard, win, pos_ok, size_ok, scale_ok) ==
    IF pos_ok /\ size_ok
    THEN initial_center(win, scale_ok)
    ELSE center_guard

\* the block that holds the OVERLAY_CENTER lock: get or initialize the center
get_or_init_center(center_guard, win, pos_ok, size_ok, scale_ok) ==
    IF ~center_guard.some /\ pos_ok /\ size_ok
    THEN initial_center(win, scale_ok)
    ELSE center_guard

\* pc: "idle", "done", "set_size", "set_position".  req_width and
\* req_height are the arguments, width and height the clamped locals,
\* center the local read under the lock, found whether the window exists.
\* before is the window's center when the call started and disturbed
\* whether the user has moved the window since then.
IdleResize ==
    [pc |-> "idle", req_width |-> 0, req_height |-> 0, width |-> 0, height |-> 0,
     center |-> NoCenter, found |-> FALSE, result |-> NoResult,
     before |-> NoCenter, disturbed |-> FALSE, id |-> 0]

ResizeReturned(t) == otask[t].pc \in {"idle", "done"}

\* run is history: the resize calls since the window was created or last
\* moved.  c0: the center before the first of them, n: whether one has
\* started, ok: all of them so far set size and position and returned Ok,
\* moved: the run began with a move by the user, partial: the center the
\* window had before the first call of the run that set the size and failed
\* to set the position
FreshRun == [c0 |-> NoCenter, n |-> 0, ok |-> TRUE, moved |-> FALSE, partial |-> NoCenter]

RunAtStart(r, win) ==
    IF r.n = 0 /\ win.exists
    THEN [r EXCEPT !.c0 = WindowCenter(win), !.n = 1]
    ELSE r

\* faulty variant: the center is initialized whether or not the window exists
resize_overlay_inits_when_absent(t, width, height, pos_ok, size_ok, scale_ok) ==
    /\ ResizeReturned(t)
    /\ ocalls < MaxResizes
    /\ LET w == fmax(width, min_size)
           h == fmax(height, min_size)
           center == get_or_init_center(OVERLAY_CENTER, window, pos_ok, size_ok, scale_ok)
           call == [pc |-> "set_size", req_width |-> width, req_height |-> height,
                    width |-> w, height |-> h, center |-> center, found |-> TRUE,
                    result |-> NoResult, before |-> WindowCenter(window),
                    disturbed |-> FALSE, id |-> ocalls + 1]
       IN  /\ OVERLAY_CENTER' = center
           /\ otask' = [otask EXCEPT ![t] =
                          IF window.exists THEN call
                          ELSE [call EXCEPT !.pc = "done", !.center = NoCenter,
                                            !.found = FALSE, !.result = Ok]]
    /\ run' = RunAtStart(run, window)
    /\ ocalls' = ocalls + 1
    /\ UNCHANGED <<window, svars, vvars, lvars>>

\* first step of resize_overlay: clamp, look the window up, get or
\* initialize the center under the OVERLAY_CENTER lock
resize_overlay(t, width, height, pos_ok, size_ok, scale_ok) ==
    /\ ResizeReturned(t)
    /\ ocalls < MaxResizes
    /\ LET w == fmax(width, min_size)
           h == fmax(height, min_size)
           center == get_or_init_center(OVERLAY_CENTER, window, pos_ok, size_ok, scale_ok)
           call == [pc |-> "set_size", req_width |-> width, req_height |-> height,
                    width |-> w, height |-> h, center |-> center, found |-> TRUE,
                    result |-> NoResult, before |-> WindowCenter(window),
                    disturbed |-> FALSE, id |-> ocalls + 1]
       IN  IF window.exists
           THEN /\ OVERLAY_CENTER' = center
                /\ otask' = [otask EXCEPT ![t] = call]
           ELSE /\ OVERLAY_CENTER' = OVERLAY_CENTER
                /\ otask' = [otask EXCEPT ![t] =
                               [call EXCEPT !.pc = "done", !.center = NoCenter,
                                            !.found = FALSE, !.result = Ok]]
    /\ run' = RunAtStart(run, window)
    /\ ocalls' = ocalls + 1
    /\ UNCHANGED <<window, svars, vvars, lvars>>

\* faulty variant: a failure of set_size is ignored
resize_set_size_ignores_failure(t, ok) ==
    /\ otask[t].pc = "set_size"
    /\ window' = IF ok THEN [window EXCEPT !.w = otask[t].width, !.h = otask[t].height]
                 ELSE window
    /\ otask' = IF otask[t].center.some
                THEN [otask EXCEPT ![t].pc = "set_position"]
                ELSE [otask EXCEPT ![t].pc = "done", ![t].result = Ok]
    /\ run' = IF otask[t].center.some /\ ok THEN run ELSE [run EXCEPT !.ok = FALSE]
    /\ UNCHANGED <<OVERLAY_CENTER, ocalls, svars, vvars, lvars>>

\* second step: window.set_size with the clamped logical size
resize_set_size(t, ok) ==
    /\ otask[t].pc = "set_size"
    /\ IF ok
       THEN /\ window' = [window EXCEPT !.w = otask[t].width, !.h = otask[t].height]
            /\ otask' = IF otask[t].center.some
                        THEN [otask EXCEPT ![t].pc = "set_position"]
                        ELSE [otask EXCEPT ![t].pc = "done", ![t].result = Ok]
            /\ run' = IF otask[t].center.some THEN run ELSE [run EXCEPT !.ok = FALSE]
       ELSE /\ window' = window
            /\ otask' = [otask EXCEPT ![t].pc = "done", ![t].result = Err("window", "")]
            /\ run' = [run EXCEPT !.ok = FALSE]
    /\ UNCHANGED <<OVERLAY_CENTER, ocalls, svars, vvars, lvars>>

\* third step: window.set_position so that the center stays where it was
resize_set_position(t, ok) ==
    /\ otask[t].pc = "set_position"
    /\ LET cx2 == otask[t].center.cx2
           cy2 == otask[t].center.cy2
           x2 == cx2 - otask[t].width
           y2 == cy2 - otask[t].height
       IN  IF ok
           THEN /\ window' = [window EXCEPT !.x2 = x2, !.y2 = y2]
                /\ otask' = [otask EXCEPT ![t].pc = "done", ![t].result = Ok]
                /\ run' = run
           ELSE /\ window' = window
                /\ otask' = [otask EXCEPT ![t].pc = "done",
                                          ![t].result = Err("window", "")]
                /\ run' = [run EXCEPT !.ok = FALSE,
                                      !.partial = IF @.some \/ otask[t].disturbed THEN @
                                                  ELSE otask[t].before]
    /\ UNCHANGED <<OVERLAY_CENTER, ocalls, svars, vvars, lvars>>

\* the windowing layer creates the overlay window
CreateOverlay(scale) ==
    /\ ~window.exists
    /\ window' = [exists |-> TRUE, x2 |-> 200, y2 |-> 100, w |-> 60, h |-> 40,
                  scale |-> scale]
    /\ run' = FreshRun
    /\ UNCHANGED <<OVERLAY_CENTER, otask, ocalls, svars, vvars, lvars>>

DragPositions == {<<0, 0>>, <<31, 500>>}

\* the user drags the overlay window somewhere else
UserDrag(pos) ==
    /\ window.exists
    /\ <<window.x2, window.y2>> # pos
    /\ window' = [window EXCEPT !.x2 = pos[1], !.y2 = pos[2]]
    /\ otask' = [t \in Tasks |->
                   IF otask[t].pc = "idle" THEN otask[t]
                   ELSE [otask[t] EXCEPT !.disturbed = TRUE]]
    /\ run' = IF \A t \in Tasks : ResizeReturned(t)
              THEN [FreshRun EXCEPT !.moved = TRUE]
              ELSE [FreshRun EXCEPT !.moved = TRUE, !.ok = FALSE]
    /\ UNCHANGED <<OVERLAY_CENTER, ocalls, svars, vvars, lvars>>

\* the windowing layer closes the overlay window (no resize call in flight)
CloseOverlay ==
    /\ window.exists
    /\ \A t \in Tasks : ResizeReturned(t)
    /\ window' = NoWindow
    /\ run' = FreshRun
    /\ UNCHANGED <<OVERLAY_CENTER, otask, ocalls, svars, vvars, lvars>>

(* ---------------------------- lock protocol --------------------------- *)

\* pc: "idle", "done", "sm_wait" (about to call a method of SettingsManager),
\* "sm_in" (inside it, holding the settings lock), "center_wait" (at
\* OVERLAY_CENTER.lock()), "center_in" (inside the block that holds the
\* guard), "set_size", "set_position".  left: the calls of SettingsManager
\* the command makes after the current one when nothing fails.
IdleLocks == [pc |-> "idle", cmd |-> "", left |-> 0]

LockReturned(t) == ltask[t].pc \in {"idle", "done"}

\* get_settings, save_settings and the single-field commands call
\* SettingsManager once, a live hotkey update twice (get, update_fn), a
\* reset three times
SettingsCommandKinds ==
    {"get_settings", "save_settings", "update_field", "update_hotkey_with_validation",
     "reset_hotkeys_to_defaults"}

sm_calls(cmd) ==
    CASE cmd = "update_hotkey_with_validation" -> 2
      [] cmd = "reset_hotkeys_to_defaults" -> 3
      [] OTHER -> 1

\* a settings command is invoked: it holds nothing until its first call
\* of SettingsManager
settings_command(t, cmd) ==
    /\ LockReturned(t)
    /\ lcalls < MaxCalls
    /\ ltask' = [ltask EXCEPT ![t] = [pc |-> "sm_wait", cmd |-> cmd,
                                      left |-> sm_calls(cmd) - 1]]
    /\ lcalls' = lcalls + 1
    /\ UNCHANGED <<settings_lock, center_lock, svars, vvars, ovars>>

\* a method of SettingsManager takes the settings lock; when the lock
\* cannot be had (ok = FALSE) the method and the command return the error
sm_lock(t, ok) ==
    /\ ltask[t].pc = "sm_wait"
    /\ IF ok
       THEN /\ settings_lock = 0
            /\ settings_lock' = t
            /\ ltask' = [ltask EXCEPT ![t].pc = "sm_in"]
       ELSE /\ settings_lock' = settings_lock
            /\ ltask' = [ltask EXCEPT ![t].pc = "done"]
    /\ UNCHANGED <<center_lock, lcalls, svars, vvars, ovars>>

\* the method returns and releases the lock on the way; the command goes
\* on to its next call of SettingsManager (go_on) or returns: the method
\* failed, a check of the live update failed, or it was the last call
sm_unlock(t, go_on) ==
    /\ ltask[t].pc = "sm_in"
    /\ settings_lock = t
    /\ settings_lock' = 0
    /\ ltask' = IF go_on /\ ltask[t].left > 0
                THEN [ltask EXCEPT ![t].pc = "sm_wait", ![t].left = @ - 1]
                ELSE [ltask EXCEPT ![t].pc = "done"]
    /\ UNCHANGED <<center_lock, lcalls, svars, vvars, ovars>>

\* resize_overlay is invoked: without the window it returns at once
lock_resize_overlay(t, found) ==
    /\ LockReturned(t)
    /\ lcalls < MaxCalls
    /\ ltask' = [ltask EXCEPT ![t] = [pc |-> IF found THEN "center_wait" ELSE "done",
                                      cmd |-> "resize_overlay", left |-> 0]]
    /\ lcalls' = lcalls + 1
    /\ UNCHANGED <<settings_lock, center_lock, svars, vvars, ovars>>

\* OVERLAY_CENTER.lock()
center_guard_lock(t) ==
    /\ ltask[t].pc = "center_wait"
    /\ center_lock = 0
    /\ center_lock' = t
    /\ ltask' = [ltask EXCEPT ![t].pc = "center_in"]
    /\ UNCHANGED <<settings_lock, lcalls, svars, vvars, ovars>>

\* faulty variant: the guard lives until the call returns
center_guard_kept(t) ==
    /\ ltask[t].pc = "center_in"
    /\ center_lock = t
    /\ center_lock' = t
    /\ ltask' = [ltask EXCEPT ![t].pc = "set_size"]
    /\ UNCHANGED <<settings_lock, lcalls, svars, vvars, ovars>>

\* the end of the block: the guard is dropped
center_guard_drop(t) ==
    /\ ltask[t].pc = "center_in"
    /\ center_lock = t
    /\ center_lock' = 0
    /\ ltask' = [ltask EXCEPT ![t].pc = "set_size"]
    /\ UNCHANGED <<settings_lock, lcalls, svars, vvars, ovars>>

\* window.set_size returns; reposition: it succeeded and there is a center
lock_set_size(t, reposition) ==
    /\ ltask[t].pc = "set_size"
    /\ ltask' = [ltask EXCEPT ![t].pc = IF reposition THEN "set_position" ELSE "done"]
    /\ UNCHANGED <<settings_lock, center_lock, lcalls, svars, vvars, ovars>>

\* window.set_position returns
lock_set_position(t) ==
    /\ ltask[t].pc = "set_position"
    /\ ltask' = [ltask EXCEPT ![t].pc = "done"]
    /\ UNCHANGED <<settings_lock, center_lock, lcalls, svars, vvars, ovars>>

(* --------------------------- specifications --------------------------- *)

SeqTasks == {1}

\* the tasks of two overlapping calls
PairTasks == {1, 2}

SaveInputs ==
    {AppSettingsDefault,
     [AppSettingsDefault EXCEPT !.hold_hotkey = toggle_variant, !.sound_enabled = FALSE,
                                !.selected_mic = "mic1"],
     [AppSettingsDefault EXCEPT !.paste_last_hotkey = ctrl_bogus, !.stt_timeout = "30"]}

GetOutcomes == {"ok", "lock_failed"}

\* the hotkeys the live updates are called with in the model
LiveInputs ==
    {default_toggle, default_hold, default_paste_last, toggle_variant, ctrl_f1, ctrl_bogus}

\* the hotkeys the raw slot commands are called with in the model
RawInputs == {toggle_variant, ctrl_f1, ctrl_bogus}

SettingsInit ==
    /\ settings = AppSettingsDefault
    /\ task = [t \in Tasks |-> IdleTask]
    /\ ncalls = 0
    /\ hist = [reset_failed |-> FALSE, raw_used |-> FALSE]

OverlayIdle ==
    /\ window = NoWindow
    /\ OVERLAY_CENTER = NoCenter
    /\ otask = [t \in Tasks |-> IdleResize]
    /\ ocalls = 0
    /\ run = FreshRun

LocksIdle ==
    /\ settings_lock = 0
    /\ center_lock = 0
    /\ ltask = [t \in Tasks |-> IdleLocks]
    /\ lcalls = 0

Init ==
    /\ SettingsInit
    /\ val = ValIdle
    /\ OverlayIdle
    /\ LocksIdle

\* commands that validate or cannot introduce a duplicate by their own write
SafeStart(t) ==
    \/ \E o \in GetOutcomes : get_settings(t, o)
    \/ \E h \in LiveInputs, o \in GetOutcomes : update_toggle_hotkey_live(t, h, o)
    \/ \E h \in LiveInputs, o \in GetOutcomes : update_hold_hotkey_live(t, h, o)
    \/ \E h \in LiveInputs, o \in GetOutcomes : update_paste_last_hotkey_live(t, h, o)
    \/ \E o \in Outcomes : reset_hotkeys_to_defaults(t, o)
    \/ \E v \in ScalarValues("selected_mic"), o \in Outcomes : update_selected_mic(t, v, o)
    \/ \E v \in ScalarValues("sound_enabled"), o \in Outcomes : update_sound_enabled(t, v, o)
    \/ \E v \in ScalarValues("cleanup_prompt_sections"), o \in Outcomes :
          update_cleanup_prompt_sections(t, v, o)
    \/ \E v \in ScalarValues("stt_provider"), o \in Outcomes : update_stt_provider(t, v, o)
    \/ \E v \in ScalarValues("llm_provider"), o \in Outcomes : update_llm_provider(t, v, o)
    \/ \E v \in ScalarValues("auto_mute_audio"), o \in Outcomes :
          update_auto_mute_audio(t, v, o)
    \/ \E v \in ScalarValues("stt_timeout"), o \in Outcomes : update_stt_timeout(t, v, o)

\* the commands without conflict validation
RawStart(t) ==
    \/ \E s \in SaveInputs, o \in Outcomes : save_settings(t, s, o)
    \/ \E h \in RawInputs, o \in Outcomes : update_toggle_hotkey(t, h, o)
    \/ \E h \in RawInputs, o \in Outcomes : update_hold_hotkey(t, h, o)
    \/ \E h \in RawInputs, o \in Outcomes : update_paste_last_hotkey(t, h, o)

Continue(t) ==
    \/ \E o \in Outcomes : uhv_update_fn(t, o)
    \/ \E o \in Outcomes : reset_update_hold(t, o)
    \/ \E o \in Outcomes : reset_update_paste_last(t, o)

\* every settings command, one after another
Next == \E t \in SeqTasks : SafeStart(t) \/ RawStart(t) \/ Continue(t)

Spec == Init /\ [][Next]_vars

\* the validating commands only, one after another
NextSafe == \E t \in SeqTasks : SafeStart(t) \/ Continue(t)

SpecSafe == Init /\ [][NextSafe]_vars

\* live hotkey updates running concurrently
NextLive ==
    \E t \in Tasks :
        \/ \E h \in LiveInputs, o \in GetOutcomes : update_toggle_hotkey_live(t, h, o)
        \/ \E h \in LiveInputs, o \in GetOutcomes : update_hold_hotkey_live(t, h, o)
        \/ \E h \in LiveInputs, o \in GetOutcomes : update_paste_last_hotkey_live(t, h, o)
        \/ \E o \in Outcomes : uhv_update_fn(t, o)

SpecLive == Init /\ [][NextLive]_vars

InitValidate ==
    /\ SettingsInit
    /\ OverlayIdle
    /\ LocksIdle
    /\ val \in [new_hotkey : Hotkeys \cup {bogus_variant},
                current_settings : SettingsOver(Hotkeys),
                exclude_type : ExcludeTypes,
                result : {NoResult}, called : {FALSE}]

SpecValidate == InitValidate /\ [][validate_call]_vars

\* the hotkeys is_same_as is applied to on its own: every key with every
\* sequence of at most MaxMods modifiers, repetitions included
SameKeys == {"Space", "space", "F1"}
SameModifiers == {"Ctrl", "CTRL", "Alt", "Shift"}
ModifierSeqs == UNION {[1..n -> SameModifiers] : n \in 0..MaxMods}
SameHotkeys == {HotkeyConfig(k, m) : k \in SameKeys, m \in ModifierSeqs}

\* a.is_same_as(b) called on its own
is_same_as_call ==
    /\ ~val.called
    /\ val' = [val EXCEPT !.result = is_same_as(val.a, val.b), !.called = TRUE]
    /\ UNCHANGED <<svars, ovars, lvars>>

InitSame ==
    /\ SettingsInit
    /\ OverlayIdle
    /\ LocksIdle
    /\ val \in [a : SameHotkeys, b : SameHotkeys, result : {FALSE}, called : {FALSE}]

SpecSame == InitSame /\ [][is_same_as_call]_vars

\* the segments the strings given to normalize_shortcut_string are made of:
\* Ctrl, CTRL, cmd, WIN, Meta, alt, Space, A, the empty segment, and the
\* canonical control and super
Segments ==
    {<<"C", "t", "r", "l">>, <<"C", "T", "R", "L">>, <<"c", "m", "d">>,
     <<"W", "I", "N">>, <<"M", "e", "t", "a">>, <<"a", "l", "t">>,
     <<"S", "p", "a", "c", "e">>, <<"A">>, <<>>,
     <<"c", "o", "n", "t", "r", "o", "l">>, <<"s", "u", "p", "e", "r">>}

SegmentSeqs == UNION {[1..n -> Segments] : n \in 1..MaxSegs}

\* normalize_shortcut_string called on its own
normalize_call ==
    /\ ~val.called
    /\ val' = [val EXCEPT !.result = normalize_shortcut_string(val.raw), !.called = TRUE]
    /\ UNCHANGED <<svars, ovars, lvars>>

InitNormalize ==
    /\ SettingsInit
    /\ OverlayIdle
    /\ LocksIdle
    /\ val \in {[segs |-> segs, raw |-> join_plus(segs), result |-> <<>>, called |-> FALSE] :
                  segs \in SegmentSeqs}

SpecNormalize == InitNormalize /\ [][normalize_call]_vars

\* the (width, height) arguments of resize_overlay in the model
RequestSizes == {<<20, 101>>, <<101, 20>>, <<48, 60>>}

\* resize_overlay calls one after another, the user dragging the window
NextOverlay ==
    \/ \E t \in SeqTasks, size \in RequestSizes,
          pos_ok \in BOOLEAN, size_ok \in BOOLEAN, scale_ok \in BOOLEAN :
          resize_overlay(t, size[1], size[2], pos_ok, size_ok, scale_ok)
    \/ \E t \in SeqTasks, ok \in BOOLEAN : resize_set_size(t, ok)
    \/ \E t \in SeqTasks, ok \in BOOLEAN : resize_set_position(t, ok)
    \/ \E scale \in {1, 2} : CreateOverlay(scale)
    \/ \E pos \in DragPositions : UserDrag(pos)

SpecOverlay == Init /\ [][NextOverlay]_vars

\* the (width, height) arguments of overlapping resize_overlay calls in the model
ResizeSizes == {<<20, 101>>, <<101, 20>>}

\* overlapping resize_overlay calls, the window being created and closed
NextResize ==
    \/ \E t \in PairTasks, size \in ResizeSizes,
          pos_ok \in BOOLEAN, size_ok \in BOOLEAN, scale_ok \in BOOLEAN :
          resize_overlay(t, size[1], size[2], pos_ok, size_ok, scale_ok)
    \/ \E t \in PairTasks, ok \in BOOLEAN : resize_set_size(t, ok)
    \/ \E t \in PairTasks, ok \in BOOLEAN : resize_set_position(t, ok)
    \/ \E scale \in {1, 2} : CreateOverlay(scale)
    \/ CloseOverlay

SpecResize == Init /\ [][NextResize]_vars

\* the steps of a command that has been invoked
LockStep(t) ==
    \/ \E ok \in BOOLEAN : sm_lock(t, ok)
    \/ \E go_on \in BOOLEAN : sm_unlock(t, go_on)
    \/ center_guard_lock(t)
    \/ center_guard_drop(t)
    \/ \E reposition \in BOOLEAN : lock_set_size(t, reposition)
    \/ lock_set_position(t)

\* settings and resize commands invoked concurrently, lock by lock
NextLocks ==
    \E t \in Tasks :
        \/ \E cmd \in SettingsCommandKinds : settings_command(t, cmd)
        \/ \E found \in BOOLEAN : lock_resize_overlay(t, found)
        \/ LockStep(t)

SpecLocks == Init /\ [][NextLocks]_vars

\* every command that can take a step eventually takes one
SpecLocksFair == SpecLocks /\ \A t \in Tasks : WF_vars(LockStep(t))

\* toggle moved away and hold moved onto Ctrl+Alt+Space, as two live
\* updates leave them
moved_settings ==
    [AppSettingsDefault EXCEPT !.toggle_hotkey = ctrl_f1, !.hold_hotkey = toggle_variant]

\* the settings a reset is started over in the model
ResetStarts == {AppSettingsDefault, moved_settings}

\* the hotkeys of the live updates that run next to a reset in the model
ResetLiveInputs == {toggle_variant, ctrl_f1}

InitReset ==
    /\ settings \in ResetStarts
    /\ task = [t \in Tasks |-> IdleTask]
    /\ ncalls = 0
    /\ hist = [reset_failed |-> FALSE, raw_used |-> FALSE]
    /\ val = ValIdle
    /\ OverlayIdle
    /\ LocksIdle

\* a reset with get_settings and live hotkey updates running next to it
NextReset ==
    \E t \in PairTasks :
        \/ \E o \in Outcomes : reset_hotkeys_to_defaults(t, o)
        \/ \E o \in Outcomes : reset_update_hold(t, o)
        \/ \E o \in Outcomes : reset_update_paste_last(t, o)
        \/ \E o \in GetOutcomes : get_settings(t, o)
        \/ \E h \in ResetLiveInputs, o \in GetOutcomes : update_toggle_hotkey_live(t, h, o)
        \/ \E h \in ResetLiveInputs, o \in GetOutcomes : update_hold_hotkey_live(t, h, o)
        \/ \E h \in ResetLiveInputs, o \in GetOutcomes :
              update_paste_last_hotkey_live(t, h, o)
        \/ \E o \in Outcomes : uhv_update_fn(t, o)

SpecReset == InitReset /\ [][NextReset]_vars

(* ------------------------------- claims ------------------------------- *)

AllReturned == \A t \in Tasks : Returned(t)

\* C1: once all concurrently started live hotkey updates have returned (none
\* of them with a storage error), the three slots are still pairwise not
\* the same; in particular toggle := h and hold := h cannot both succeed.
C1_NoDuplicateAfterConcurrentLive ==
    (AllReturned /\ \A t \in Tasks : task[t].result.kind # "store")
        => PairwiseDistinct(settings)

BetweenCommands == \A t \in SeqTasks : Returned(t)

Acting(t) == task'[t].id # task[t].id \/ task'[t].pc # task[t].pc

LiveCommands ==
    {"update_toggle_hotkey_live", "update_hold_hotkey_live", "update_paste_last_hotkey_live"}

\* C3: a live hotkey update that returns a conflict or a parse error has
\* left the settings store as it was before the call (the error is returned
\* by the step that started the call, that step changes nothing) and has
\* not invoked the raw slot mutator.
C3_ValidationErrorLeavesSettings ==
    [][\A t \in Tasks :
          (/\ Acting(t)
           /\ task'[t].cmd \in LiveCommands
           /\ task'[t].pc = "done"
           /\ task'[t].result.kind \in {"conflict", "parse"})
          => (/\ Returned(t)
              /\ task'[t].id = task[t].id + 1
              /\ settings' = settings
              /\ ~task'[t].wrote)]_vars

\* a parse error returned over settings that are not the defaults
C3_Witness ==
    \E t \in SeqTasks :
        /\ task[t].pc = "done"
        /\ task[t].cmd \in LiveCommands
        /\ task[t].result.kind = "parse"
        /\ settings # AppSettingsDefault

\* the slot names in checking order, as the message shows them
ShownSlot(i) ==
    CASE i = 1 -> "toggle"
      [] i = 2 -> "hold"
      [] i = 3 -> "paste last"

SlotValue(s, i) ==
    CASE i = 1 -> s.toggle_hotkey
      [] i = 2 -> s.hold_hotkey
      [] i = 3 -> s.paste_last_hotkey

\* the slots other than the excluded one that hold the same hotkey as the candidate
Colliding(v) ==
    {i \in 1..3 : /\ Slots[i] # v.exclude_type
                  /\ is_same_as(v.new_hotkey, SlotValue(v.current_settings, i))}

\* C4: validate_no_duplicate_shortcut fails iff a slot other than the
\* excluded one is the same as the candidate; the message names the first
\* such slot in the order toggle, hold, paste_last, with '_' shown as a
\* space, and so never names the excluded slot.
C4_ValidateIffCollision ==
    val.called =>
        /\ val.result.ok <=> Colliding(val) = {}
        /\ val.result.ok => val.result = Ok
        /\ Colliding(val) # {} =>
              /\ val.result.kind = "conflict"
              /\ \E i \in Colliding(val) :
                    /\ val.result.slot = ShownSlot(i)
                    /\ \A j \in Colliding(val) : i <= j
        /\ \A i \in 1..3 : Slots[i] = val.exclude_type => val.result.slot # ShownSlot(i)

\* the candidate is the same as all three slots, toggle is excluded and the
\* message names hold
C4_Witness ==
    /\ val.called
    /\ val.exclude_type = "toggle"
    /\ Colliding(val) = {2, 3}
    /\ is_same_as(val.new_hotkey, val.current_settings.toggle_hotkey)
    /\ val.result.slot = "hold"

\* C5: when the user has moved the window between two resize_overlay calls,
\* the second call leaves the window centered on the center it had just
\* before that call (the anchor is computed afresh from the live position
\* and size).  Stated for successful calls that set size and position, on
\* a window whose scale factor is 1.
C5_CenterRecomputedPerCall ==
    \A t \in SeqTasks :
        (/\ otask[t].pc = "done"
         /\ otask[t].result.ok
         /\ otask[t].center.some
         /\ ~otask[t].disturbed
         /\ run.moved
         /\ run.ok
         /\ window.scale = 1)
        => WindowCenter(window) = otask[t].before

\* C6: after each call of a run of successful resize_overlay calls between
\* which nothing else moves the window, the center of the window is the
\* center it had before the first call of the run.  Stated for runs whose
\* calls all set size and position, on a window whose scale factor is 1.
C6_CenterConstantOverRun ==
    (/\ \A t \in SeqTasks : ResizeReturned(t)
     /\ run.n > 0
     /\ run.ok
     /\ window.scale = 1)
    => WindowCenter(window) = run.c0

ScalarOf(s) == [f \in ScalarFields |-> s[f]]

\* C7: a reset_hotkeys_to_defaults returns Ok exactly when none of its
\* writes failed, it then returns true and leaves the three slots at their
\* factory defaults, pairwise not the same; no step of a reset changes a
\* scalar field.
C7_ResetRestoresDefaults ==
    /\ [](\A t \in SeqTasks :
             (task[t].pc = "done" /\ task[t].cmd = "reset_hotkeys_to_defaults")
             => (/\ task[t].result.ok <=> ~hist.reset_failed
                 /\ task[t].result.ok =>
                       /\ task[t].result = OkTrue
                       /\ settings.toggle_hotkey = default_toggle
                       /\ settings.hold_hotkey = default_hold
                       /\ settings.paste_last_hotkey = default_paste_last
                       /\ PairwiseDistinct(settings)))
    /\ [][\A t \in SeqTasks :
             (Acting(t) /\ task'[t].cmd = "reset_hotkeys_to_defaults")
             => ScalarOf(settings') = ScalarOf(settings)]_vars

\* a completed reset over scalar fields that are not the defaults
C7_Witness ==
    \E t \in SeqTasks :
        /\ task[t].pc = "done"
        /\ task[t].cmd = "reset_hotkeys_to_defaults"
        /\ task[t].result = OkTrue
        /\ ScalarOf(settings) # ScalarOf(AppSettingsDefault)

RawSlotCommands == {"update_toggle_hotkey", "update_hold_hotkey", "update_paste_last_hotkey"}

\* the slot a raw slot command is named after
CommandSlotValue(s, cmd) ==
    CASE cmd = "update_toggle_hotkey" -> s.toggle_hotkey
      [] cmd = "update_hold_hotkey" -> s.hold_hotkey
      [] cmd = "update_paste_last_hotkey" -> s.paste_last_hotkey

\* save_settings and the raw slot commands never answer with a conflict or
\* a parse error, and when they return Ok the given value is stored
RawCommandsStore ==
    \A t \in SeqTasks :
        task[t].pc = "done" =>
            /\ task[t].cmd \in RawSlotCommands \cup {"save_settings"} =>
                  task[t].result.kind \notin {"conflict", "parse"}
            /\ (task[t].cmd \in RawSlotCommands /\ task[t].result.ok) =>
                  CommandSlotValue(settings, task[t].cmd) = task[t].hotkey
            /\ (task[t].cmd = "save_settings" /\ task[t].result.ok) =>
                  settings = task[t].new_settings

CommandField(cmd) ==
    CASE cmd \in {"update_toggle_hotkey", "update_toggle_hotkey_live"} -> "toggle_hotkey"
      [] cmd \in {"update_hold_hotkey", "update_hold_hotkey_live"} -> "hold_hotkey"
      [] cmd \in {"update_paste_last_hotkey", "update_paste_last_hotkey_live"}
            -> "paste_last_hotkey"
      [] cmd = "update_selected_mic" -> "selected_mic"
      [] cmd = "update_sound_enabled" -> "sound_enabled"
      [] cmd = "update_cleanup_prompt_sections" -> "cleanup_prompt_sections"
      [] cmd = "update_stt_provider" -> "stt_provider"
      [] cmd = "update_llm_provider" -> "llm_provider"
      [] cmd = "update_auto_mute_audio" -> "auto_mute_audio"
      [] cmd = "update_stt_timeout" -> "stt_timeout"

ScalarCommands ==
    {"update_selected_mic", "update_sound_enabled", "update_cleanup_prompt_sections",
     "update_stt_provider", "update_llm_provider", "update_auto_mute_audio",
     "update_stt_timeout"}

SingleFieldCommands == RawSlotCommands \cup LiveCommands \cup ScalarCommands

\* C9: every step of a raw or live slot update and of a scalar mutator
\* leaves every field but the command's own unchanged, a slot update that
\* returns Ok has stored its hotkey in its slot, and get_settings changes
\* nothing.
C9_SingleFieldFrame ==
    [][\A t \in SeqTasks :
          Acting(t) =>
             /\ task'[t].cmd \in SingleFieldCommands =>
                   \A f \in (HotkeyFields \cup ScalarFields) \ {CommandField(task'[t].cmd)} :
                       settings'[f] = settings[f]
             /\ (task'[t].cmd \in RawSlotCommands \cup LiveCommands
                   /\ task'[t].pc = "done" /\ task'[t].result.ok) =>
                   settings'[CommandField(task'[t].cmd)] = task'[t].hotkey
             /\ task'[t].cmd = "get_settings" => settings' = settings]_vars

\* a scalar mutator has returned Ok over hotkeys that are not the defaults
C9_Witness ==
    \E t \in SeqTasks :
        /\ task[t].pc = "done"
        /\ task[t].cmd = "update_stt_timeout"
        /\ task[t].result.ok
        /\ settings.stt_timeout # AppSettingsDefault.stt_timeout
        /\ settings.toggle_hotkey # default_toggle

\* C10: after a successful resize_overlay on an existing window the size of
\* the window is (max(width, 48), max(height, 48)), each axis clamped on
\* its own, and the position set is the anchor minus half the clamped size.
C10_ClampedSizeApplied ==
    \A t \in SeqTasks :
        (otask[t].pc = "done" /\ otask[t].result.ok /\ otask[t].found) =>
            LET w == IF otask[t].req_width < 48 THEN 48 ELSE otask[t].req_width
                h == IF otask[t].req_height < 48 THEN 48 ELSE otask[t].req_height
            IN  /\ window.w = w
                /\ window.h = h
                /\ (otask[t].center.some /\ ~otask[t].disturbed) =>
                      /\ window.x2 = otask[t].center.cx2 - w
                      /\ window.y2 = otask[t].center.cy2 - h

\* a call with a width below 48 and a height above it has set size and position
C10_Witness ==
    \E t \in SeqTasks :
        /\ otask[t].pc = "done"
        /\ otask[t].result.ok
        /\ otask[t].center.some
        /\ ~otask[t].disturbed
        /\ otask[t].req_width < 48
        /\ otask[t].req_height > 48
        /\ window.w = 48

\* the resize task that starts a call in this step
Starting(t) == otask'[t].id # otask[t].id

\* C11: a resize_overlay call made while the overlay window does not exist
\* returns Ok at once, sets neither size nor position and leaves
\* OVERLAY_CENTER exactly as it was, empty or not.
C11_AbsentWindowNoOp ==
    [][\A t \in Tasks :
          (Starting(t) /\ ~window.exists)
          => (/\ otask'[t].pc = "done"
              /\ otask'[t].result = Ok
              /\ ~otask'[t].found
              /\ window' = window
              /\ OVERLAY_CENTER' = OVERLAY_CENTER)]_vars

\* a call has returned Ok while the window was closed, the anchor recorded
\* by an earlier call still being there
C11_Witness ==
    /\ ~window.exists
    /\ OVERLAY_CENTER.some
    /\ \E t \in PairTasks :
          /\ otask[t].pc = "done"
          /\ ~otask[t].found
          /\ otask[t].result = Ok

\* a string in capitals
to_uppercase(s) ==
    CASE to_lowercase(s) = "ctrl" -> "CTRL"
      [] to_lowercase(s) = "alt" -> "ALT"
      [] to_lowercase(s) = "shift" -> "SHIFT"
      [] to_lowercase(s) = "space" -> "SPACE"
      [] to_lowercase(s) = "f1" -> "F1"
      [] OTHER -> s

Reverse(seq) == [i \in 1..Len(seq) |-> seq[Len(seq) + 1 - i]]
Rotate(seq) == IF seq = <<>> THEN seq ELSE Tail(seq) \o <<Head(seq)>>

\* hotkeys that differ from h in the order of the modifiers or in letter case only
Respelled(h) ==
    {HotkeyConfig(h.key, Reverse(h.modifiers)),
     HotkeyConfig(h.key, Rotate(h.modifiers)),
     HotkeyConfig(to_uppercase(h.key), [i \in 1..Len(h.modifiers) |-> to_uppercase(h.modifiers[i])]),
     HotkeyConfig(to_lowercase(h.key), [i \in 1..Len(h.modifiers) |-> to_lowercase(h.modifiers[i])])}

\* the lower-case names among the modifiers of h, found without ModifierSet
FoldedModifiers(h) ==
    {m \in {"ctrl", "alt", "shift"} :
        \E i \in 1..Len(h.modifiers) : to_lowercase(h.modifiers[i]) = m}

\* C12: a.is_same_as(b) holds iff the case-folded keys are equal and the
\* case-folded modifier sets have the same members; it is symmetric, it
\* does not change when the modifiers of a or of b are permuted or change
\* letter case, and it is false when the modifier sets differ in size.
C12_IsSameAsSetComparison ==
    val.called =>
        /\ val.result <=> (/\ to_lowercase(val.a.key) = to_lowercase(val.b.key)
                           /\ FoldedModifiers(val.a) = FoldedModifiers(val.b))
        /\ val.result = is_same_as(val.b, val.a)
        /\ \A a2 \in Respelled(val.a), b2 \in Respelled(val.b) :
              is_same_as(a2, b2) = val.result
        /\ Cardinality(FoldedModifiers(val.a)) # Cardinality(FoldedModifiers(val.b))
              => ~val.result

\* two hotkeys that are the same although they differ in the letter case of
\* the key and in the number of modifiers written
C12_Witness ==
    /\ val.called
    /\ val.result
    /\ val.a.key # val.b.key
    /\ Len(val.a.modifiers) # Len(val.b.modifiers)

\* what a segment of the vocabulary has to become
Normalized(seg) ==
    CASE seg \in {<<"C", "t", "r", "l">>, <<"C", "T", "R", "L">>}
            -> <<"c", "o", "n", "t", "r", "o", "l">>
      [] seg \in {<<"c", "m", "d">>, <<"W", "I", "N">>, <<"M", "e", "t", "a">>}
            -> <<"s", "u", "p", "e", "r">>
      [] seg = <<"S", "p", "a", "c", "e">> -> <<"s", "p", "a", "c", "e">>
      [] seg = <<"A">> -> <<"a">>
      [] OTHER -> seg

\* C13: normalize_shortcut_string lowercases every segment of a
\* '+'-separated string and rewrites ctrl, cmd, win, meta to control, super,
\* super, super wherever they stand; other segments pass through; number
\* and order of the segments are kept; the empty string gives the empty
\* string; normalizing the result again returns it unchanged.
C13_NormalizeSegmentwise ==
    val.called =>
        /\ val.result = join_plus([i \in 1..Len(val.segs) |-> Normalized(val.segs[i])])
        /\ Len(split_plus(val.result)) = Len(val.segs)
        /\ \A i \in 1..Len(val.segs) : split_plus(val.result)[i] = Normalized(val.segs[i])
        /\ val.raw = <<>> => val.result = <<>>
        /\ normalize_shortcut_string(val.result) = val.result

\* a string of three segments, the last of them a modifier name in capitals
C13_Witness ==
    /\ val.called
    /\ Len(val.segs) = 3
    /\ val.segs[3] = <<"W", "I", "N">>
    /\ val.segs[1] = <<"A">>
    /\ val.result = <<"a", "+">> \o Normalized(val.segs[2]) \o <<"+", "s", "u", "p", "e", "r">>

\* C14: once two overlapping resize_overlay calls on an existing window have
\* both returned Ok, size and position of the window come from the same
\* call: the center of the window is the anchor center (the window has the
\* position computed for the size it has).
C14_SizeAndPositionFromSameCall ==
    (/\ \A t \in PairTasks : ResizeReturned(t)
     /\ window.exists
     /\ run.n > 0
     /\ run.ok)
    => WindowCenter(window) = OVERLAY_CENTER

\* C15: when a resize_overlay call has set the new size and failed to set the
\* position, the next call that succeeds, the user not having moved the
\* window in between, leaves the window centered where it was centered
\* before the failed call.  Stated for the first such failure since the
\* window was last moved, on a window whose scale factor is 1.
C15_PartialResizeSelfCorrects ==
    \A t \in SeqTasks :
        (/\ otask[t].pc = "done"
         /\ otask[t].result.ok
         /\ otask[t].center.some
         /\ ~otask[t].disturbed
         /\ run.partial.some
         /\ window.scale = 1)
        => WindowCenter(window) = run.partial

\* the resize task that takes the step, if it is a step of resize_overlay
ResizeActing(t) == otask'[t].id # otask[t].id \/ otask'[t].pc # otask[t].pc

SizeSet(t) == window'.w = otask[t].width /\ window'.h = otask[t].height

PositionKept == window'.x2 = window.x2 /\ window'.y2 = window.y2

\* C16: resize_overlay sets the size before the position and stops at the
\* first failure of the windowing layer: when set_size fails the call
\* returns an error and neither size nor position is set; set_position is
\* attempted only after set_size succeeded; when set_position fails the
\* call returns an error and the window keeps the new size; the call
\* returns Ok only from a step in which the last windowing call it had to
\* make took effect, or when the window does not exist.
C16_SizeThenPositionStopAtFailure ==
    [][\A t \in SeqTasks :
          ResizeActing(t) =>
             /\ (otask[t].pc = "set_size" /\ ~otask'[t].result.ok /\ otask'[t].pc = "done")
                   => (window' = window /\ otask'[t].result.kind = "window")
             /\ otask'[t].pc = "set_position"
                   => (otask[t].pc = "set_size" /\ SizeSet(t) /\ PositionKept)
             /\ otask[t].pc = "set_position"
                   => (/\ otask'[t].pc = "done"
                       /\ window.w = otask[t].width /\ window.h = otask[t].height
                       /\ SizeSet(t)
                       /\ ~otask'[t].result.ok
                             => (window' = window /\ otask'[t].result.kind = "window"))
             /\ (otask'[t].pc = "done" /\ otask'[t].result.ok)
                   => \/ Starting(t) /\ ~window.exists
                      \/ /\ otask[t].pc = "set_size"
                         /\ ~otask[t].center.some
                         /\ SizeSet(t) /\ PositionKept
                      \/ /\ otask[t].pc = "set_position"
                         /\ window'.x2 = otask[t].center.cx2 - otask[t].width
                         /\ window'.y2 = otask[t].center.cy2 - otask[t].height]_vars

\* a call has returned an error from set_position: the window has the new
\* size and is not where the call would have put it
C16_Witness ==
    \E t \in SeqTasks :
        /\ otask[t].pc = "done"
        /\ otask[t].result.kind = "window"
        /\ run.partial = otask[t].before
        /\ run.partial.some
        /\ window.w = otask[t].width
        /\ window.h = otask[t].height
        /\ window.x2 # otask[t].center.cx2 - otask[t].width

\* C17: a live hotkey update reads the settings, runs the conflict check,
\* then the parse check, then the raw slot mutator, then writes the
\* restart-required record.  The step that starts the call writes nothing;
\* it goes on to the mutator only when neither check failed on the settings
\* read, reports a conflict whenever there is one (also for a candidate that
\* cannot be parsed) and a parse error only when there is no conflict.  The
\* mutator is called from that position only; the call returns Ok only
\* from the mutator step, with the hotkey stored in the slot, and the
\* record is logged exactly when the call returns Ok.
C17_LiveUpdateStepOrder ==
    [][\A t \in SeqTasks :
          (Acting(t) /\ task'[t].cmd \in LiveCommands) =>
             LET c == task'[t]
                 v == validate_no_duplicate_shortcut(c.hotkey, settings, c.slot)
             IN  /\ task'[t].id # task[t].id =>
                       /\ settings' = settings
                       /\ ~c.wrote /\ ~c.logged
                       /\ c.pc = "write" => (v.ok /\ to_shortcut(c.hotkey))
                       /\ c.pc = "done" => c.result.kind \in {"store", "conflict", "parse"}
                       /\ c.result.kind = "conflict" => (~v.ok /\ c.result = v)
                       /\ c.result.kind = "parse" => (v.ok /\ ~to_shortcut(c.hotkey))
                 /\ c.wrote => task[t].pc = "write"
                 /\ c.logged <=> (c.pc = "done" /\ c.result.ok)
                 /\ (c.pc = "done" /\ c.result.ok) =>
                       /\ task[t].pc = "write"
                       /\ c.wrote
                       /\ settings'[c.field] = c.hotkey]_vars

\* a candidate that is the same as another slot and cannot be parsed has
\* been answered with the conflict
C17_Witness ==
    \E t \in SeqTasks :
        /\ task[t].pc = "done"
        /\ task[t].cmd \in LiveCommands
        /\ task[t].result.kind = "conflict"
        /\ ~to_shortcut(task[t].hotkey)
        /\ ~task[t].wrote

\* a task holds a lock only inside the section that took it
LockDiscipline ==
    \A t \in Tasks :
        /\ settings_lock = t <=> ltask[t].pc = "sm_in"
        /\ center_lock = t <=> ltask[t].pc = "center_in"

\* some command that has not returned can take a step
NoDeadlock == (\E t \in Tasks : ~LockReturned(t)) => \E t \in Tasks : ENABLED LockStep(t)

C19_AnchorWriteOnce ==
    /\ [](ocalls = 0 => ~OVERLAY_CENTER.some)
    /\ [][/\ OVERLAY_CENTER' # OVERLAY_CENTER =>
                /\ ~OVERLAY_CENTER.some
                /\ window.exists
                /\ OVERLAY_CENTER' \in {initial_center(window, TRUE),
                                        initial_center(window, FALSE)}
                /\ \E t \in PairTasks :
                      Starting(t) /\ otask'[t].center = OVERLAY_CENTER'
          /\ \A t \in PairTasks :
                /\ (Starting(t) /\ window.exists) =>
                      /\ otask'[t].pc = "set_size"
                      /\ otask'[t].center = OVERLAY_CENTER'
                      /\ OVERLAY_CENTER.some => otask'[t].center = OVERLAY_CENTER
                /\ (ResizeActing(t) /\ otask[t].pc = "set_size" /\ ~otask[t].center.some) =>
                      /\ otask'[t].pc = "done"
                      /\ PositionKept
                      /\ \/ otask'[t].result = Ok /\ SizeSet(t)
                         \/ otask'[t].result.kind = "window" /\ window' = window]_vars

\* the anchor is still the one a call recorded although that call then
\* failed in the windowing layer and left the window somewhere else
C19_Witness ==
    /\ OVERLAY_CENTER.some
    /\ window.exists
    /\ WindowCenter(window) # OVERLAY_CENTER
    /\ \E t \in PairTasks :
          /\ otask[t].pc = "done"
          /\ otask[t].result.kind = "window"
          /\ otask[t].center = OVERLAY_CENTER
    /\ \E t \in PairTasks :
          /\ otask[t].pc = "done"
          /\ otask[t].found
          /\ otask[t].result = Ok
          /\ ~otask[t].center.some

\* the fields of the settings that differ between s1 and s2
Changed(s1, s2) == {f \in HotkeyFields \cup ScalarFields : s1[f] # s2[f]}

\* C20: reset_hotkeys_to_defaults writes toggle, hold and paste_last in
\* three steps of its own, in this order, each step writing its slot only;
\* it goes on to the next write only after the write before it succeeded
\* and stored the default, returns an error from the step whose write
\* failed, and returns true only from the third step with paste_last at
\* its default.  Steps of other commands come between these steps and
\* read the half-reset settings.
C20_ResetThreeSeparateWrites ==
    [][\A t \in PairTasks :
          (Acting(t) /\ task'[t].cmd = "reset_hotkeys_to_defaults") =>
             LET c == task'[t]
             IN  /\ task'[t].id # task[t].id =>
                       /\ Changed(settings, settings') \subseteq {"toggle_hotkey"}
                       /\ c.pc \in {"hold", "done"}
                       /\ c.pc = "hold" => settings'.toggle_hotkey = default_toggle
                       /\ c.pc = "done" => ~c.result.ok
                 /\ task'[t].id = task[t].id =>
                       /\ task[t].pc \in {"hold", "paste_last"}
                       /\ task[t].pc = "hold" =>
                             /\ Changed(settings, settings') \subseteq {"hold_hotkey"}
                             /\ c.pc \in {"paste_last", "done"}
                             /\ c.pc = "paste_last" => settings'.hold_hotkey = default_hold
                             /\ c.pc = "done" => ~c.result.ok
                       /\ task[t].pc = "paste_last" =>
                             /\ Changed(settings, settings') \subseteq {"paste_last_hotkey"}
                             /\ c.pc = "done"
                             /\ c.result.ok =>
                                   /\ c.result = OkTrue
                                   /\ settings'.paste_last_hotkey = default_paste_last]_vars

\* a reset started over slots that were pairwise not the same has written
\* toggle and not yet hold; toggle and hold are now the same, and a live
\* update started meanwhile was refused for a conflict with toggle
C20_Witness ==
    \E t \in PairTasks, u \in PairTasks :
        /\ task[t].cmd = "reset_hotkeys_to_defaults"
        /\ task[t].pc = "hold"
        /\ task[t].id = 1
        /\ is_same_as(settings.toggle_hotkey, settings.hold_hotkey)
        /\ task[u].cmd = "update_paste_last_hotkey_live"
        /\ task[u].pc = "done"
        /\ task[u].id = 2
        /\ task[u].result = Err("conflict", "toggle")

====
